---- MODULE Spec2Model ----
(***************************************************************************)
(* Model of enrich_sirets_insee_progress.py: a sequential batch run that   *)
(* loads SIRET identifiers, resolves credentials, looks every identifier   *)
(* up with a bounded retry loop, accumulates rows, writes checkpoints and  *)
(* exports the rows.                                                       *)
(*                                                                         *)
(* Python str values are tuples of one-character strings, so that          *)
(* stripping, len() and slicing are computed.  None is the tuple <<"None">>*)
(* (no Python string is equal to it: its only element is not a character). *)
(* Opaque strings (keys, tokens, error texts) are one-element tuples.      *)
(* Durations are in tenths of a second.                                    *)
(***************************************************************************)
EXTENDS Integers, Sequences, FiniteSets, TLC

\* ---------------------------------------------------------------- bounds
MaxInput == 2
MaxRetries == 2
MaxLiveRetries == 1
MaxCheckpointRows == 3
MaxCheckpointInput == 3
MaxPeriodes == 2

\* ------------------------------------------------------- python helpers
None == <<"None">>
NaN == <<"NaN">>
EmptyStr == <<>>

Truthy(v) == v # None /\ v # EmptyStr

PyOr(a, b) == IF Truthy(a) THEN a ELSE b

Digits == {"0", "1", "2", "3", "4", "5", "6", "7", "8", "9"}

\* "sup2" stands for the one character U+00B2: str.isdigit() accepts it,
\* float() and the regex class \d do not.
UnicodeDigits == Digits \cup {"sup2"}

IsDigit(c) == c \in Digits

DigitVal(c) ==
    CASE c = "0" -> 0 [] c = "1" -> 1 [] c = "2" -> 2 [] c = "3" -> 3
      [] c = "4" -> 4 [] c = "5" -> 5 [] c = "6" -> 6 [] c = "7" -> 7
      [] c = "8" -> 8 [] c = "9" -> 9

\* str.isdigit(): non-empty and every character is a digit character
isdigit(s) == Len(s) > 0 /\ \A k \in 1..Len(s) : s[k] \in UnicodeDigits

\* float(s) raises ValueError unless s is a decimal numeral
FloatRaises(s) == \E k \in 1..Len(s) : s[k] \notin Digits

RECURSIVE DecimalValue(_)
DecimalValue(s) ==
    IF s = <<>> THEN 0
    ELSE 10 * DecimalValue(SubSeq(s, 1, Len(s) - 1)) + DigitVal(s[Len(s)])

\* float(ra), in tenths of a second
float(s) == 10 * DecimalValue(s)

\* ------------------------------------------------------------ defaults
DEFAULT_RETRY_BACKOFF == 8
DEFAULT_SLEEP == 1
SIRET_LEN == 14
SIREN_LEN == 9

\* ------------------------------------------- identifier normalisation
\* Series.astype(str): a missing cell (NaN) becomes the text "nan"
astype_str(v) == IF v = NaN THEN <<"n", "a", "n">> ELSE v

\* str.replace(r"\D+", "", regex=True)
StripNonDigits(s) == SelectSeq(s, IsDigit)

NormalizeColumn(col) == [k \in 1..Len(col) |-> StripNonDigits(astype_str(col[k]))]

\* Series.dropna(): after astype(str) no value is missing any more
dropna(col) == SelectSeq(col, LAMBDA v : v # NaN)

\* Series.unique(): first occurrence wins, order preserved
RECURSIVE unique(_)
unique(col) ==
    IF col = <<>> THEN <<>>
    ELSE LET front == unique(SubSeq(col, 1, Len(col) - 1))
             last == col[Len(col)]
         IN  IF \E k \in 1..Len(front) : front[k] = last
             THEN front
             ELSE Append(front, last)

\* variant: malformed values are kept and looked up like the others
KeepValid_all(col) == col

\* line 161
KeepValid(col) == SelectSeq(col, LAMBDA s : Len(s) = SIRET_LEN)

\* variant: duplicates are removed before the non-digits are stripped
LoadedSirets_uniqueFirst(col) == KeepValid(NormalizeColumn(unique(dropna(col))))

\* lines 160-161
LoadedSirets(col) == KeepValid(unique(dropna(NormalizeColumn(col))))

\* ------------------------------------------------------ field extraction
EmptyDict == <<>>

\* variant: an absent key reads as the empty text
Get_empty(d, k) == IF k \in DOMAIN d THEN d[k] ELSE EmptyStr

\* dict.get(key): None when the key is absent
Get(d, k) == IF k \in DOMAIN d THEN d[k] ELSE None

\* dict.get(key, {}) for a key that holds an object
GetDict(d, k) == IF k \in DOMAIN d THEN d[k] ELSE EmptyDict

\* a key whose value is the JSON null where an object is expected
JsonNull == [json_null |-> TRUE]
IsJsonNull(d) == "json_null" \in DOMAIN d

\* a or b, for a and b objects: the empty object and null are falsy
DictOr(a, b) == IF DOMAIN a = {} \/ IsJsonNull(a) THEN b ELSE a

\* dict.get(key) or [] for a key that holds a list
GetList(d, k) == IF k \in DOMAIN d THEN d[k] ELSE <<>>

\* variant: the whole identifier is taken as the siren
Prefix_all(s, n) == s

\* s[:n]
Prefix(s, n) == SubSeq(s, 1, IF Len(s) < n THEN Len(s) ELSE n)

\* " ".join(x for x in parts if x)
RECURSIVE JoinNonEmpty(_)
JoinNonEmpty(parts) ==
    IF parts = <<>> THEN <<>>
    ELSE LET front == JoinNonEmpty(SubSeq(parts, 1, Len(parts) - 1))
             last == parts[Len(parts)]
         IN  IF ~Truthy(last) THEN front
             ELSE IF front = <<>> THEN last
             ELSE front \o <<" ">> \o last

\* str.strip()
RECURSIVE strip(_)
strip(s) ==
    IF s = <<>> THEN s
    ELSE IF s[1] = " " THEN strip(Tail(s))
    ELSE IF s[Len(s)] = " " THEN strip(SubSeq(s, 1, Len(s) - 1))
    ELSE s

\* text of the exception raised by unite.get(...) when unite is None
AttributeErrorText == <<"AttributeError">>

\* lines 88-89, 110: etab.get("uniteLegale", {}) returns the null a present
\* key holds, and the first unite.get(...) then raises
ExtractRaises(payload) ==
    LET etab == DictOr(GetDict(payload, "etablissement"), payload)
    IN  IsJsonNull(GetDict(etab, "uniteLegale"))

extract_fields(payload) ==
    LET etab == DictOr(GetDict(payload, "etablissement"), payload)
        unite == GetDict(etab, "uniteLegale")
        adr == DictOr(GetDict(etab, "adresseEtablissement"), EmptyDict)
        numero == PyOr(Get(adr, "numeroVoieEtablissement"), EmptyStr)
        type_voie == PyOr(Get(adr, "typeVoieEtablissement"), EmptyStr)
        lib_voie == PyOr(Get(adr, "libelleVoieEtablissement"), EmptyStr)
        comp == PyOr(Get(adr, "complementAdresseEtablissement"), EmptyStr)
        adresse_l1 == PyOr(strip(JoinNonEmpty(<<numero, type_voie, lib_voie, comp>>)), None)
        periodes == GetList(etab, "periodesEtablissement")
        periode == IF periodes # <<>> THEN periodes[1] ELSE EmptyDict
    IN  [siret |-> Get(etab, "siret"),
         siren |-> Prefix(PyOr(Get(etab, "siret"), EmptyStr), SIREN_LEN),
         denomination |-> PyOr(Get(unite, "denominationUniteLegale"),
                               Get(unite, "nomUniteLegale")),
         etat_etablissement |-> PyOr(Get(periode, "etatAdministratifEtablissement"),
                                     Get(etab, "etatAdministratifEtablissement")),
         date_creation |-> Get(unite, "dateCreationUniteLegale"),
         tranche_effectifs |-> PyOr(Get(unite, "trancheEffectifsUniteLegale"),
                                    Get(etab, "trancheEffectifsEtablissement")),
         naf |-> PyOr(Get(periode, "activitePrincipaleEtablissement"),
                      Get(etab, "activitePrincipaleEtablissement")),
         libelle_naf |-> PyOr(Get(periode, "nomenclatureActivitePrincipaleEtablissement"),
                              EmptyStr),
         adresse_ligne_1 |-> adresse_l1,
         code_postal |-> Get(adr, "codePostalEtablissement"),
         commune |-> Get(adr, "libelleCommuneEtablissement")]

\* ------------------------------------------------------------- inputs
SiretA == <<"1", "2", "3", "4", "5", "6", "7", "8", "9", "0", "1", "2", "3", "4">>
SiretASpaced == <<"1", "2", "3", "4", " ", "5", "6", "7", "8", " ",
                  "9", "0", "1", "2", "3", "4">>
SiretB == <<"5", "5", "2", "1", "0", "0", "5", "5", "4", "0", "0", "0", "1", "3">>
TooShort == <<"1", "2", "3", "-", "4">>

RawValues == {SiretA, SiretASpaced, SiretB, TooShort, NaN}

InputFiles == UNION {[1..n -> RawValues] : n \in 0..MaxInput}

\* The registry's answers to GET <base>/siret/<s> --------------------------
ACME == <<"A", "C", "M", "E">>

Payloads(s) ==
    {[etablissement |-> [siret |-> s,
                         uniteLegale |-> [denominationUniteLegale |-> ACME]]],
     [siret |-> s,
      uniteLegale |-> [nomUniteLegale |-> ACME],
      adresseEtablissement |-> [numeroVoieEtablissement |-> <<"7">>,
                                libelleVoieEtablissement |-> <<"Q">>]]}

RetryAfterValues ==
    {None, EmptyStr, <<"2">>, <<"0">>, <<"-", "1">>, <<"sup2">>}

ErrorStatuses == {401}

\* A 2xx answer carries the JSON document of the establishment (registry
\* contract), the other answers carry no document the client reads.
Responses(s) ==
    {[status_code |-> 200, retry_after |-> None, body |-> p] : p \in Payloads(s)}
    \cup {[status_code |-> 429, retry_after |-> ra, body |-> EmptyDict] :
        ra \in RetryAfterValues}
    \cup {[status_code |-> c, retry_after |-> None, body |-> EmptyDict] :
        c \in ErrorStatuses}

\* Response.raise_for_status()
RaisesForStatus(r) == r.status_code >= 400 /\ r.status_code < 600

\* str(e) of the exception an attempt ends with
HTTPErrorText(code) ==
    CASE code = 401 -> <<"HTTPError 401">>
      [] code = 500 -> <<"HTTPError 500">>
      [] OTHER -> <<"HTTPError">>
TimeoutText == <<"ConnectTimeout">>
ValueErrorText == <<"ValueError">>

\* The token endpoint's answers to the POST ------------------------------
TokenValues == {<<"T1">>, None}
TokenFailures == {HTTPErrorText(401), HTTPErrorText(500), TimeoutText}

\* ------------------------------------------------------ configuration
CredentialNames == {"api_key", "client_id", "client_secret"}
CredentialValues(origin) == {None, EmptyStr, <<origin>>}

\* One choice of CLI flags, environment variables and .env file values
AllCredentialSetups ==
    [cli : [CredentialNames -> CredentialValues("cli")],
     environ : [CredentialNames -> CredentialValues("environ")],
     file : [CredentialNames -> CredentialValues("file")]]

Nothing == [n \in CredentialNames |-> None]

Only(names, origin) ==
    [n \in CredentialNames |-> IF n \in names THEN <<origin>> ELSE None]

CredentialSetups ==
    {[cli |-> Nothing, environ |-> Nothing, file |-> Only({"api_key"}, "file")],
     [cli |-> Only({"client_id", "client_secret"}, "cli"), environ |-> Nothing,
      file |-> Nothing],
     [cli |-> Only({"client_id"}, "cli"), environ |-> Nothing, file |-> Nothing]}

CheckpointChoices == {2}

Arguments(c, retries, cps) ==
    [api_key : {c.cli["api_key"]},
     client_id : {c.cli["client_id"]},
     client_secret : {c.cli["client_secret"]},
     max_retries : retries,
     retry_backoff : {DEFAULT_RETRY_BACKOFF},
     sleep : {DEFAULT_SLEEP},
     checkpoint_rows : cps]

\* ---------------------------------------------------------------- state
VARIABLES
    input,          \* the "siret" column of the input file, as read
    args,           \* parsed command line
    environ,        \* os.environ
    env,            \* read_env_file(".env")
    pc,             \* position in main()
    sirets, total,
    api_key, client_id, client_secret, mode, token, headers,
    i, attempt, last_err, rows, ok, ko,
    checkpoint,     \* content of the checkpoint file
    checkpoint_log, \* the values of i at which the checkpoint file was written
    output,         \* the exported spreadsheet
    exit_status,    \* process exit status, -1 while running
    uncaught,       \* text of the exception that ended the process, or None
    posts,          \* network log: value of i at every POST to the token endpoint
    queried,        \* network log: the identifiers a GET was sent for, in order
    resps,          \* network log: one entry per GET of the current identifier,
                    \* the status code answered (0: no answer, network error)
    last_ra,        \* Retry-After header of the latest response (None: absent)
    slept,          \* duration of the latest time.sleep(), -1 before the first
    js,             \* the JSON document of the latest 2xx answer
    wire            \* network log of enrich_sirets_insee_1.py: every POST
                    \* and GET of the run, in order

vars == <<input, args, environ, env, pc, sirets, total, api_key, client_id,
          client_secret, mode, token, headers, i, attempt, last_err, rows, ok,
          ko, checkpoint, checkpoint_log, output, exit_status, uncaught, posts,
          queried, resps, last_ra, slept, js, wire>>

config == <<input, args, environ, env>>
credentials == <<api_key, client_id, client_secret, mode, token, headers>>
loopvars == <<i, attempt, last_err, rows, ok, ko>>
files == <<checkpoint, checkpoint_log, output>>
netlog == <<posts, queried, resps, last_ra, slept>>

EXIT_SUCCESS == 0
EXIT_NO_CREDENTIALS == 1
EXIT_UNCAUGHT == 1
RUNNING == -1

StartWith(setups, inputs, retries, cps) ==
    /\ input \in inputs
    /\ \E c \in setups :
        /\ args \in Arguments(c, retries, cps)
        /\ environ = c.environ
        /\ env = c.file
    /\ sirets = <<>> /\ total = 0
    /\ api_key = None /\ client_id = None /\ client_secret = None
    /\ mode = None /\ token = None /\ headers = EmptyDict
    /\ i = 0 /\ attempt = 0 /\ last_err = None
    /\ rows = <<>> /\ ok = 0 /\ ko = 0
    /\ checkpoint = [fieldnames |-> {}, rows |-> <<>>]
    /\ checkpoint_log = <<>>
    /\ output = [written |-> FALSE, rows |-> <<>>]
    /\ exit_status = RUNNING
    /\ uncaught = None
    /\ posts = <<>> /\ queried = <<>> /\ resps = <<>>
    /\ last_ra = None /\ slept = -1
    /\ wire = <<>>

InitWith(setups, inputs, retries, cps) ==
    /\ StartWith(setups, inputs, retries, cps)
    /\ pc = "load"
    /\ js = EmptyDict

Init == InitWith(CredentialSetups, InputFiles, 0..MaxRetries, CheckpointChoices)

\* ------------------------------------------------------------- start-up
\* lines 159-165
LoadSirets ==
    /\ pc = "load"
    /\ sirets' = LoadedSirets(input)
    /\ total' = Len(sirets')
    /\ IF total' = 0
       THEN pc' = "exit_no_siret" /\ exit_status' = EXIT_SUCCESS
       ELSE pc' = "resolve" /\ UNCHANGED exit_status
    /\ UNCHANGED <<config, js, wire, credentials, loopvars, files, uncaught, netlog>>

\* variant: the environment variable wins over the CLI flag
Resolve_environFirst(name) == PyOr(PyOr(environ[name], args[name]), env[name])

\* lines 169, 178, 179: a or b or c
Resolve(name) == PyOr(PyOr(args[name], environ[name]), env[name])

ApiKeyHeaders(key) ==
    ("X-INSEE-Api-Key-Integration" :> key) @@ ("Accept" :> <<"application/json">>)

BearerHeaders(tok) ==
    ("Authorization" :> <<"Bearer ">> \o tok) @@ ("Accept" :> <<"application/json">>)

\* variant: only a wholly missing pair is refused
MissingOAuth_both(id, secret) == ~Truthy(id) /\ ~Truthy(secret)

\* line 180
MissingOAuth(id, secret) == ~Truthy(id) \/ ~Truthy(secret)

\* lines 168-182
ResolveCredentials ==
    /\ pc = "resolve"
    /\ api_key' = Resolve("api_key")
    /\ IF Truthy(api_key')
       THEN /\ headers' = ApiKeyHeaders(api_key')
            /\ mode' = <<"API-KEY">>
            /\ pc' = "for"
            /\ UNCHANGED <<client_id, client_secret, exit_status>>
       ELSE /\ client_id' = Resolve("client_id")
            /\ client_secret' = Resolve("client_secret")
            /\ IF MissingOAuth(client_id', client_secret')
               THEN pc' = "exit_no_credentials" /\ exit_status' = EXIT_NO_CREDENTIALS
               ELSE pc' = "token" /\ UNCHANGED exit_status
            /\ UNCHANGED <<headers, mode>>
    /\ UNCHANGED <<config, js, wire, sirets, total, token, loopvars, files, uncaught, netlog>>

\* lines 183-186 with get_token, lines 76-84: the POST is answered 2xx
GetToken ==
    /\ pc = "token"
    /\ posts' = Append(posts, i)
    /\ \E tok \in TokenValues :
        /\ token' = tok
        /\ headers' = BearerHeaders(tok)
    /\ mode' = <<"OAUTH2">>
    /\ pc' = "for"
    /\ UNCHANGED <<config, js, wire, sirets, total, api_key, client_id, client_secret,
                   loopvars, files, exit_status, uncaught, queried, resps,
                   last_ra, slept>>

\* line 183: get_token raises (non-2xx answer or network error) and nothing
\* in main() catches it
GetTokenRaises ==
    /\ pc = "token"
    /\ posts' = Append(posts, i)
    /\ \E e \in TokenFailures : uncaught' = e
    /\ exit_status' = EXIT_UNCAUGHT
    /\ pc' = "exit_uncaught"
    /\ UNCHANGED <<config, js, wire, sirets, total, credentials, loopvars, files,
                   queried, resps, last_ra, slept>>

\* ------------------------------------------------------------ main loop
\* lines 195-200: next identifier of the for loop
ForNext ==
    /\ pc = "for"
    /\ i < total
    /\ i' = i + 1
    /\ attempt' = 0
    /\ last_err' = None
    /\ resps' = <<>>
    /\ last_ra' = None
    /\ pc' = "while"
    /\ UNCHANGED <<config, js, wire, sirets, total, credentials, rows, ok, ko, files,
                   exit_status, uncaught, posts, queried, slept>>

\* variant: one attempt too many
WhileCond_offbyone == attempt <= args.max_retries + 1

\* line 201
WhileCond == attempt <= args.max_retries

CanAttempt == pc = "while" /\ WhileCond

\* line 203: one more GET for sirets[i], answered by status code
Requested(code, ra) ==
    /\ queried' = IF resps = <<>> THEN Append(queried, sirets[i]) ELSE queried
    /\ resps' = Append(resps, code)
    /\ last_ra' = ra

\* lines 206-207
UsesRetryAfter(ra) == Truthy(ra) /\ isdigit(ra)

\* variant: the Retry-After header is ignored
Pause_backoff(ra) == args.retry_backoff

Pause(ra) == IF UsesRetryAfter(ra) THEN float(ra) ELSE args.retry_backoff

\* lines 204-210: 429 answered
GetRateLimited ==
    /\ CanAttempt
    /\ \E r \in Responses(sirets[i]) :
        /\ r.status_code = 429
        /\ ~(UsesRetryAfter(r.retry_after) /\ FloatRaises(r.retry_after))
        /\ Requested(r.status_code, r.retry_after)
        /\ slept' = Pause(r.retry_after)
    /\ attempt' = attempt + 1
    /\ UNCHANGED <<config, js, wire, pc, sirets, total, credentials, i, last_err, rows,
                   ok, ko, files, exit_status, uncaught, posts>>

\* lines 211-216: 2xx answered with a JSON body
GetSucceeds ==
    /\ CanAttempt
    /\ \E r \in Responses(sirets[i]) :
        /\ r.status_code # 429
        /\ ~RaisesForStatus(r)
        /\ ~ExtractRaises(r.body)
        /\ Requested(r.status_code, r.retry_after)
        /\ js' = r.body
        /\ rows' = Append(rows, extract_fields(js'))
    /\ ok' = ok + 1
    /\ last_err' = None
    /\ pc' = "after"
    /\ UNCHANGED <<config, wire, sirets, total, credentials, i, attempt, ko, files,
                   exit_status, uncaught, posts, slept>>

\* the exception a response makes the try block raise, None if it raises none
Raised(r) ==
    IF r.status_code = 429
    THEN IF UsesRetryAfter(r.retry_after) /\ FloatRaises(r.retry_after)
         THEN ValueErrorText ELSE None
    ELSE IF RaisesForStatus(r) THEN HTTPErrorText(r.status_code)
    ELSE IF ExtractRaises(r.body) THEN AttributeErrorText
    ELSE None

\* variant: the first error is kept instead of the latest
Except_keepFirst(e) ==
    /\ last_err' = IF last_err = None THEN e ELSE last_err
    /\ attempt' = attempt + 1
    /\ slept' = args.retry_backoff

\* lines 217-220
Except(e) ==
    /\ last_err' = e
    /\ attempt' = attempt + 1
    /\ slept' = args.retry_backoff

\* lines 203-220: the try block raises after an answer
GetFails ==
    /\ CanAttempt
    /\ \E r \in Responses(sirets[i]) :
        /\ Raised(r) # None
        /\ Requested(r.status_code, r.retry_after)
        /\ Except(Raised(r))
    /\ UNCHANGED <<config, js, wire, pc, sirets, total, credentials, i, rows, ok, ko,
                   files, exit_status, uncaught, posts>>

\* variant: the network error is not caught and ends the process
GetTimesOut_uncaught ==
    /\ CanAttempt
    /\ Requested(0, None)
    /\ uncaught' = TimeoutText
    /\ exit_status' = EXIT_UNCAUGHT
    /\ pc' = "exit_uncaught"
    /\ UNCHANGED <<config, js, wire, sirets, total, credentials, loopvars, files, posts,
                   slept>>

\* lines 203, 217-220: session.get raises, no answer
GetTimesOut ==
    /\ CanAttempt
    /\ Requested(0, None)
    /\ Except(TimeoutText)
    /\ UNCHANGED <<config, js, wire, pc, sirets, total, credentials, i, rows, ok, ko,
                   files, exit_status, uncaught, posts>>

\* lines 222-224
FailureRecord(s, e) == [siret |-> s, erreur |-> e]

RecordFailure(rs, s, e) == IF e # None THEN Append(rs, FailureRecord(s, e)) ELSE rs

\* variant: the file is written every checkpoint_rows identifiers only
CheckpointDue_periodic(n) ==
    args.checkpoint_rows > 0 /\ n % args.checkpoint_rows = 0

\* line 233
CheckpointDue(n) ==
    args.checkpoint_rows > 0 /\ (n % args.checkpoint_rows = 0 \/ n = total)

\* csv.DictWriter.writerow: a key the row lacks is written as the empty
\* text (restval), and so is a None value
CsvLine(row, fieldnames) ==
    [f \in fieldnames |->
        IF f \in DOMAIN row /\ row[f] # None THEN row[f] ELSE EmptyStr]

\* lines 235-236, write_checkpoint_csv lines 120-126: the file is opened
\* with mode "w", its previous content is lost
CheckpointFile(rs) ==
    LET fieldnames == UNION {DOMAIN rs[k] : k \in 1..Len(rs)}
    IN  [fieldnames |-> fieldnames,
         rows |-> [k \in 1..Len(rs) |-> CsvLine(rs[k], fieldnames)]]

\* lines 222-241: after the while loop (break, or retries used up)
FinishIdentifier ==
    /\ pc = "after" \/ (pc = "while" /\ ~WhileCond)
    /\ rows' = RecordFailure(rows, sirets[i], last_err)
    /\ ko' = IF last_err # None THEN ko + 1 ELSE ko
    /\ IF CheckpointDue(i)
       THEN /\ checkpoint' = CheckpointFile(rows')
            /\ checkpoint_log' = Append(checkpoint_log, i)
       ELSE UNCHANGED <<checkpoint, checkpoint_log>>
    /\ slept' = args.sleep
    /\ pc' = "for"
    /\ UNCHANGED <<config, js, wire, sirets, total, credentials, i, attempt, last_err, ok,
                   output, exit_status, uncaught, posts, queried, resps, last_ra>>

\* lines 243-254
Export ==
    /\ pc = "for"
    /\ ~(i < total)
    /\ output' = [written |-> TRUE, rows |-> rows]
    /\ exit_status' = EXIT_SUCCESS
    /\ pc' = "done"
    /\ UNCHANGED <<config, js, wire, sirets, total, credentials, loopvars, checkpoint,
                   checkpoint_log, uncaught, netlog>>

Next ==
    \/ LoadSirets
    \/ ResolveCredentials
    \/ GetToken
    \/ GetTokenRaises
    \/ ForNext
    \/ GetRateLimited
    \/ GetSucceeds
    \/ GetFails
    \/ GetTimesOut
    \/ FinishIdentifier
    \/ Export

Spec == Init /\ [][Next]_vars

\* A blocking call returns (every request has a timeout), so the sequential
\* program takes its next step whenever it has one.
\* Runs checked for progress: input files without formatted or missing cells
LiveInputFiles == UNION {[1..n -> {SiretA, SiretB, TooShort}] : n \in 0..MaxInput}

LiveInit == InitWith(CredentialSetups, LiveInputFiles, 0..MaxLiveRetries, {2})

FairSpec == LiveInit /\ [][Next]_vars /\ WF_vars(Next)

\* Every combination of credential sources, on a one-line input file
CredInit ==
    InitWith(AllCredentialSetups, {<<SiretA>>, <<TooShort>>}, {0}, {0})

CredSpec == CredInit /\ [][Next]_vars

\* the specification of the checkpoint claims: three valid identifiers to
\* choose from, no retry, every checkpoint interval up to MaxCheckpointRows
SiretC == <<"5", "5", "5", "5", "5", "5", "5", "5", "5", "5", "5", "5", "5", "5">>

CheckpointInputFiles ==
    UNION {[1..n -> {SiretA, SiretB, SiretC}] : n \in 0..MaxCheckpointInput}

CheckpointInit ==
    InitWith(CredentialSetups, CheckpointInputFiles, {0}, 1..MaxCheckpointRows)

CheckpointSpec == CheckpointInit /\ [][Next]_vars

\* ------------------------------------ extract_fields as a pure function
\* The documents extract_fields is applied to: every expected key is absent
\* or present, at every nesting level.
DUPONT == <<"D", "U", "P", "O", "N", "T">>
ShortSiret == <<"1", "2", "3">>

\* the object that holds key k with one of the values, or lacks the key
Optional(k, values) == {EmptyDict} \cup {[x \in {k} |-> v] : v \in values}

UniteLegales ==
    {EmptyDict, JsonNull,
     [denominationUniteLegale |-> ACME],
     [denominationUniteLegale |-> ACME, nomUniteLegale |-> DUPONT],
     [denominationUniteLegale |-> EmptyStr, nomUniteLegale |-> DUPONT],
     [denominationUniteLegale |-> None, nomUniteLegale |-> DUPONT],
     [nomUniteLegale |-> DUPONT, siren |-> <<"9", "8", "7", "6", "5", "4", "3", "2", "1">>],
     [denominationUniteLegale |-> ACME,
      dateCreationUniteLegale |-> <<"2", "0", "0", "1">>,
      trancheEffectifsUniteLegale |-> <<"1", "2">>]}

Adresses ==
    {EmptyDict, JsonNull,
     [numeroVoieEtablissement |-> <<"7">>, libelleVoieEtablissement |-> <<"Q">>],
     [codePostalEtablissement |-> <<"7", "5">>,
      libelleCommuneEtablissement |-> <<"P">>]}

Periodes ==
    {EmptyDict,
     [etatAdministratifEtablissement |-> <<"A">>,
      activitePrincipaleEtablissement |-> <<"6", "2">>,
      nomenclatureActivitePrincipaleEtablissement |-> <<"N", "A", "F">>],
     [etatAdministratifEtablissement |-> <<"F">>]}

PeriodeLists == UNION {[1..n -> Periodes] : n \in 0..MaxPeriodes}

Etablissements ==
    {a @@ b @@ c @@ d @@ e :
        a \in Optional("siret", {SiretA, ShortSiret}),
        b \in Optional("uniteLegale", UniteLegales),
        c \in Optional("adresseEtablissement", Adresses),
        d \in Optional("periodesEtablissement", PeriodeLists),
        e \in Optional("activitePrincipaleEtablissement", {<<"4", "7">>})}

\* the establishment nested under "etablissement", or at the top level,
\* alone or beside an empty or null "etablissement"
ExtractPayloads ==
    {[etablissement |-> e] : e \in Etablissements}
    \cup {w @@ e : w \in Optional("etablissement", {EmptyDict, JsonNull}),
                   e \in Etablissements}

ExtractInit ==
    /\ StartWith({CHOOSE c \in CredentialSetups : TRUE}, {<<>>}, {0}, {0})
    /\ pc = "extract"
    /\ js \in ExtractPayloads

\* line 213 alone: rows.append(extract_fields(js)), or the exception
ExtractFields ==
    /\ pc = "extract"
    /\ IF ExtractRaises(js)
       THEN /\ last_err' = AttributeErrorText
            /\ UNCHANGED rows
       ELSE /\ rows' = Append(rows, extract_fields(js))
            /\ UNCHANGED last_err
    /\ pc' = "extracted"
    /\ UNCHANGED <<config, js, wire, sirets, total, credentials, i, attempt, ok,
                   ko, files, exit_status, uncaught, netlog>>

ExtractSpec == ExtractInit /\ [][ExtractFields]_vars

\* ------------------------- the OAuth2-only script enrich_sirets_insee_1.py
DEFAULT_SLEEP_1 == 2
EXIT_AUTH == 2

\* the variables main() of enrich_sirets_insee_1.py does not have
progress_only == <<api_key, mode, attempt, last_err, ok, ko, checkpoint,
                   checkpoint_log, posts, queried, resps, last_ra, js>>

\* " ".join(str(v).strip() for v in parts if v), line 77
RECURSIVE JoinStripped(_)
JoinStripped(parts) ==
    IF parts = <<>> THEN <<>>
    ELSE LET front == JoinStripped(SubSeq(parts, 1, Len(parts) - 1))
             last == parts[Len(parts)]
             kept == SelectSeq(SubSeq(parts, 1, Len(parts) - 1), Truthy)
         IN  IF ~Truthy(last) THEN front
             ELSE IF kept = <<>> THEN strip(last)
             ELSE front \o <<" ">> \o strip(last)

\* enrich_sirets_insee_1.py lines 67-99
extract_fields_1(payload) ==
    LET etab == DictOr(GetDict(payload, "etablissement"), payload)
        unite == GetDict(etab, "uniteLegale")
        periodes_etab == GetList(etab, "periodesEtablissement")
        periode == IF periodes_etab # <<>> THEN periodes_etab[1] ELSE EmptyDict
        Either(k) == PyOr(Get(periode, k), Get(etab, k))
        adresse_l1 == JoinStripped(<<Either("numeroVoieEtablissement"),
                                     Either("indiceRepetitionEtablissement"),
                                     Either("typeVoieEtablissement"),
                                     Either("libelleVoieEtablissement"),
                                     Either("complementAdresseEtablissement")>>)
    IN  [siret |-> Get(etab, "siret"),
         siren |-> PyOr(Get(unite, "siren"),
                        Prefix(PyOr(Get(etab, "siret"), EmptyStr), SIREN_LEN)),
         denomination |-> PyOr(Get(unite, "denominationUniteLegale"),
                               Get(unite, "nomUniteLegale")),
         enseigne |-> Either("enseigne1Etablissement"),
         nom_commercial |-> Either("nomCommercialEtablissement"),
         statut_diffusion |-> Get(unite, "statutDiffusionUniteLegale"),
         etat_etablissement |-> Either("etatAdministratifEtablissement"),
         date_creation |-> Get(unite, "dateCreationUniteLegale"),
         tranche_effectifs |-> Get(unite, "trancheEffectifsUniteLegale"),
         naf |-> Either("activitePrincipaleEtablissement"),
         libelle_naf |-> PyOr(Get(periode, "nomenclatureActivitePrincipaleEtablissement"),
                              EmptyStr),
         adresse_ligne_1 |-> PyOr(adresse_l1, None),
         code_postal |-> Either("codePostalEtablissement"),
         commune |-> Either("libelleCommuneEtablissement")]

\* the credential sources of a run: a full pair on the command line, a lone
\* id on the command line beside a full pair in the .env file, nothing
CredentialSetups_1 ==
    {[cli |-> Only({"client_id", "client_secret"}, "cli"), environ |-> Nothing,
      file |-> Nothing],
     [cli |-> Only({"client_id"}, "cli"), environ |-> Nothing,
      file |-> Only({"client_id", "client_secret"}, "file")],
     [cli |-> Nothing, environ |-> Nothing, file |-> Nothing]}

InputFiles_1 == UNION {[1..n -> {SiretA, SiretB, TooShort}] : n \in 0..MaxInput}

Init_1 ==
    /\ StartWith(CredentialSetups_1, InputFiles_1, {0}, {0})
    /\ pc = "main"
    /\ js = EmptyDict

\* resolve_credentials, lines 101-118: the first source holding both values
resolve_credentials ==
    IF Truthy(args.client_id) /\ Truthy(args.client_secret)
    THEN <<args.client_id, args.client_secret>>
    ELSE IF Truthy(environ.client_id) /\ Truthy(environ.client_secret)
    THEN <<environ.client_id, environ.client_secret>>
    ELSE IF Truthy(env.client_id) /\ Truthy(env.client_secret)
    THEN <<env.client_id, env.client_secret>>
    ELSE <<None, None>>

\* lines 129-138
ResolveCredentials_1 ==
    /\ pc = "main"
    /\ client_id' = resolve_credentials[1]
    /\ client_secret' = resolve_credentials[2]
    /\ IF ~Truthy(client_id') \/ ~Truthy(client_secret')
       THEN pc' = "exit_no_credentials" /\ exit_status' = EXIT_NO_CREDENTIALS
       ELSE pc' = "token" /\ UNCHANGED exit_status
    /\ UNCHANGED <<config, progress_only, wire, sirets, total, token, headers, i,
                   rows, output, uncaught, slept>>

\* the network log: a POST with the token it returned (the empty text when
\* it raised), a GET with the Authorization header it carried
PostEvent(n, tok) == [op |-> "POST", i |-> n, value |-> tok]
GetEvent(n, auth) == [op |-> "GET", i |-> n, value |-> auth]

\* the token endpoint issues a new token at every successful POST
Issued == Cardinality({k \in 1..Len(wire) : wire[k].op = "POST" /\ wire[k].value # EmptyStr})
NewToken == <<"T" \o ToString(Issued + 1)>>

Bearer(tok) == <<"Bearer ">> \o tok

\* line 146
Headers_1(tok) == [Authorization |-> Bearer(tok)]

\* lines 140-146: the first token
GetToken_1 ==
    /\ pc = "token"
    /\ wire' = Append(wire, PostEvent(i, NewToken))
    /\ token' = NewToken
    /\ headers' = Headers_1(token')
    /\ pc' = "read"
    /\ UNCHANGED <<config, progress_only, sirets, total, client_id, client_secret,
                   i, rows, output, exit_status, uncaught, slept>>

\* lines 141-144: the token endpoint answers a non-2xx status
GetTokenRejected_1 ==
    /\ pc = "token"
    /\ wire' = Append(wire, PostEvent(i, EmptyStr))
    /\ exit_status' = EXIT_AUTH
    /\ pc' = "exit_auth"
    /\ UNCHANGED <<config, progress_only, sirets, total, client_id, client_secret,
                   token, headers, i, rows, output, uncaught, slept>>

\* line 140: a network error is no requests.HTTPError, nothing catches it
GetTokenRaises_1 ==
    /\ pc = "token"
    /\ wire' = Append(wire, PostEvent(i, EmptyStr))
    /\ uncaught' = TimeoutText
    /\ exit_status' = EXIT_UNCAUGHT
    /\ pc' = "exit_uncaught"
    /\ UNCHANGED <<config, progress_only, sirets, total, client_id, client_secret,
                   token, headers, i, rows, output, slept>>

\* lines 148-152: malformed values stay in the list
ReadSirets_1 ==
    /\ pc = "read"
    /\ sirets' = unique(dropna(NormalizeColumn(input)))
    /\ total' = Len(sirets')
    /\ pc' = "for"
    /\ UNCHANGED <<config, progress_only, wire, client_id, client_secret, token,
                   headers, i, rows, output, exit_status, uncaught, slept>>

\* lines 152-155: a value of another length gets its row, no lookup, no pause
Invalid_1 ==
    /\ pc = "for"
    /\ i < total
    /\ Len(sirets[i + 1]) # SIRET_LEN
    /\ i' = i + 1
    /\ rows' = Append(rows, FailureRecord(sirets[i'], <<"SIRET invalide">>))
    /\ UNCHANGED <<config, progress_only, wire, pc, sirets, total, client_id,
                   client_secret, token, headers, output, exit_status, uncaught,
                   slept>>

\* the answers to a GET of this script: the registry's answers without
\* Retry-After, or no answer (status 0, a network error)
Answers_1(s) ==
    {r \in Responses(s) : r.retry_after = None}
    \cup {[status_code |-> 0, retry_after |-> None, body |-> EmptyDict]}

\* lines 164-168: the row an answer ends the identifier with
Row_1(s, r) ==
    IF r.status_code = 0 THEN FailureRecord(s, TimeoutText)
    ELSE IF RaisesForStatus(r) THEN FailureRecord(s, HTTPErrorText(r.status_code))
    ELSE extract_fields_1(r.body)

\* lines 152-170: the first GET is answered by a status other than 401, or
\* not at all
Get_1 ==
    /\ pc = "for"
    /\ i < total
    /\ Len(sirets[i + 1]) = SIRET_LEN
    /\ i' = i + 1
    /\ wire' = Append(wire, GetEvent(i', headers.Authorization))
    /\ \E r \in Answers_1(sirets[i']) :
        /\ r.status_code # 401
        /\ rows' = Append(rows, Row_1(sirets[i'], r))
    /\ slept' = DEFAULT_SLEEP_1
    /\ UNCHANGED <<config, progress_only, pc, sirets, total, client_id,
                   client_secret, token, headers, output, exit_status, uncaught>>

\* lines 152-160: the first GET is answered 401
GetUnauthorized_1 ==
    /\ pc = "for"
    /\ i < total
    /\ Len(sirets[i + 1]) = SIRET_LEN
    /\ i' = i + 1
    /\ wire' = Append(wire, GetEvent(i', headers.Authorization))
    /\ pc' = "reacquire"
    /\ UNCHANGED <<config, progress_only, sirets, total, client_id, client_secret,
                   token, headers, rows, output, exit_status, uncaught, slept>>

\* variant: the new token is kept but the header still carries the old one
Reauthorized_stale(tok) == headers' = headers

\* line 162: the header is updated in place
Reauthorized(tok) == headers' = [headers EXCEPT !.Authorization = Bearer(tok)]

\* lines 161-162: the token is acquired again
Reacquire_1 ==
    /\ pc = "reacquire"
    /\ wire' = Append(wire, PostEvent(i, NewToken))
    /\ token' = NewToken
    /\ Reauthorized(token')
    /\ pc' = "retry"
    /\ UNCHANGED <<config, progress_only, sirets, total, client_id, client_secret,
                   i, rows, output, exit_status, uncaught, slept>>

\* lines 161, 167-170: inside the loop get_token raises into the except
\* clause, the identifier gets a failure row and the old token stays
ReacquireRaises_1 ==
    /\ pc = "reacquire"
    /\ wire' = Append(wire, PostEvent(i, EmptyStr))
    /\ \E e \in TokenFailures : rows' = Append(rows, FailureRecord(sirets[i], e))
    /\ slept' = DEFAULT_SLEEP_1
    /\ pc' = "for"
    /\ UNCHANGED <<config, progress_only, sirets, total, client_id, client_secret,
                   token, headers, i, output, exit_status, uncaught>>

\* lines 163-170: the second GET, whatever it is answered
Retry_1 ==
    /\ pc = "retry"
    /\ wire' = Append(wire, GetEvent(i, headers.Authorization))
    /\ \E r \in Answers_1(sirets[i]) : rows' = Append(rows, Row_1(sirets[i], r))
    /\ slept' = DEFAULT_SLEEP_1
    /\ pc' = "for"
    /\ UNCHANGED <<config, progress_only, sirets, total, client_id, client_secret,
                   token, headers, i, output, exit_status, uncaught>>

\* lines 172-174
Export_1 ==
    /\ pc = "for"
    /\ ~(i < total)
    /\ output' = [written |-> TRUE, rows |-> rows]
    /\ exit_status' = EXIT_SUCCESS
    /\ pc' = "done"
    /\ UNCHANGED <<config, progress_only, wire, sirets, total, client_id,
                   client_secret, token, headers, i, rows, uncaught, slept>>

Next_1 ==
    \/ ResolveCredentials_1
    \/ GetToken_1
    \/ GetTokenRejected_1
    \/ GetTokenRaises_1
    \/ ReadSirets_1
    \/ Invalid_1
    \/ Get_1
    \/ GetUnauthorized_1
    \/ Reacquire_1
    \/ ReacquireRaises_1
    \/ Retry_1
    \/ Export_1

Spec_1 == Init_1 /\ [][Next_1]_vars

\* ------------------------------------------------------------ properties
Normalized(v) == SelectSeq(IF v = NaN THEN <<"n", "a", "n">> ELSE v,
                           LAMBDA c : c \in Digits)

NormalizedIds == {Normalized(input[k]) : k \in 1..Len(input)}
ValidIds == {s \in NormalizedIds : Len(s) = 14}

IsFailureRecord(row) == DOMAIN row = {"siret", "erreur"}
IsEnrichedRecord(row) == "erreur" \notin DOMAIN row /\ "siren" \in DOMAIN row

Terminated == pc \in {"done", "exit_no_siret", "exit_no_credentials", "exit_uncaught"}

LastRow == rows[Len(rows)]

\* C1: at normal completion the exported rows hold exactly one row, an
\* Enriched Record or a Failure Record, for each unique valid identifier of
\* the input, in input order, and no other row.
C1_OneRowPerIdentifier ==
    pc = "done" =>
        /\ Len(output.rows) = Len(sirets)
        /\ Cardinality(ValidIds) = Len(sirets)
        /\ \A k \in 1..Len(output.rows) :
            /\ k <= Len(sirets)
            /\ output.rows[k].siret = sirets[k]
            /\ IsFailureRecord(output.rows[k]) \/ IsEnrichedRecord(output.rows[k])

PostsDuring(n) == Cardinality({j \in 1..Len(posts) : posts[j] = n})

\* C3: in OAuth2 mode a 401 answered to a lookup makes the client re-acquire
\* the token exactly once before it repeats the request, and a second
\* consecutive 401 ends the attempts for the identifier.
C3_ReacquireOnce ==
    (mode = <<"OAUTH2">> /\ i >= 1) =>
        \A k \in 1..Len(resps) :
            (resps[k] = 401 /\ (k = 1 \/ resps[k - 1] # 401) /\ k < Len(resps)) =>
                /\ PostsDuring(i) = 1
                /\ resps[k + 1] = 401 => Len(resps) = k + 1

IsOtherError(code) == code = 0 \/ (code >= 300 /\ code # 429)

AllAttemptsFailed == resps # <<>> /\ \A k \in 1..Len(resps) : IsOtherError(resps[k])

ErrorOf(code) == IF code = 0 THEN TimeoutText ELSE HTTPErrorText(code)

\* C4: when every attempt for an identifier ends in a network error or a
\* non-2xx status other than 429, the loop ends only once max_retries + 1
\* attempts were made, exactly one Failure Record {siret, erreur} carrying the
\* text of the last attempt's error is appended, and the run goes on.
C4_LastErrorRecorded ==
    [][(pc = "while" /\ pc' = "for" /\ AllAttemptsFailed) =>
        /\ Len(resps) = args.max_retries + 1
        /\ rows' = Append(rows, [siret |-> sirets[i],
                                  erreur |-> ErrorOf(resps[Len(resps)])])
        /\ exit_status' = RUNNING]_vars

C4_Witness ==
    /\ pc = "for"
    /\ i < total
    /\ resps = <<401, 401, 0>>
    /\ rows # <<>>
    /\ LastRow = [siret |-> sirets[i], erreur |-> TimeoutText]

\* C5: no identifier is sent more than max_retries + 1 GETs; inside the loop
\* every GET so far, whatever its answer, has used one unit of the budget.
C5_RetryBudget ==
    /\ Len(resps) <= args.max_retries + 1
    /\ pc = "while" => Len(resps) = attempt

C5_Witness ==
    /\ pc = "while"
    /\ args.max_retries >= 1
    /\ attempt = args.max_retries + 1
    /\ \E j, k \in 1..Len(resps) : resps[j] = 429 /\ IsOtherError(resps[k])

IsNonNegativeInteger(h) ==
    h # None /\ Len(h) > 0 /\ \A k \in 1..Len(h) : h[k] \in Digits

\* C6: once a 429 is the latest answer for the identifier, the client has
\* slept the Retry-After seconds when the header is a non-negative integer
\* and the fixed backoff otherwise; the next GET starts from such a state.
C6_RetryAfterHonoured ==
    (pc = "while" /\ resps # <<>> /\ resps[Len(resps)] = 429) =>
        slept = IF IsNonNegativeInteger(last_ra)
                THEN 10 * DecimalValue(last_ra)
                ELSE args.retry_backoff

C6_Witness ==
    /\ pc = "while"
    /\ Len(resps) >= 1
    /\ resps[Len(resps)] = 429
    /\ last_ra = <<"2">>
    /\ slept = 20
    /\ attempt <= args.max_retries

\* C7: once the start-up checks are passed the run reaches normal
\* completion: every valid identifier was sent at least one GET, the output
\* file is written and the exit status is success.
C7_Completes ==
    (pc = "for" /\ i = 0)
        ~> (/\ pc = "done"
            /\ output.written
            /\ exit_status = 0
            /\ {queried[k] : k \in 1..Len(queried)} = ValidIds)

C7_Witness ==
    /\ pc = "done"
    /\ output.written
    /\ Len(queried) = 2
    /\ ko >= 1
    /\ \E k \in 1..Len(resps) : resps[k] = 0

NonEmpty(v) == v # None /\ v # <<>>

FirstNonEmpty(name) ==
    IF NonEmpty(args[name]) THEN args[name]
    ELSE IF NonEmpty(environ[name]) THEN environ[name]
    ELSE env[name]

Resolves(name) == NonEmpty(args[name]) \/ NonEmpty(environ[name]) \/ NonEmpty(env[name])

\* C8: each credential is the first non-empty of CLI flag, environment
\* variable and .env value; API-key mode is on exactly when an API key
\* resolves, OAuth2 mode exactly when none does and both client id and
\* secret resolve; the request headers carry that one mode's credential.
C8_ModeSelection ==
    pc \notin {"load", "resolve", "exit_no_siret"} =>
        /\ api_key = FirstNonEmpty("api_key")
        /\ Resolves("api_key") =>
            /\ mode = <<"API-KEY">>
            /\ DOMAIN headers = {"X-INSEE-Api-Key-Integration", "Accept"}
            /\ headers["X-INSEE-Api-Key-Integration"] = FirstNonEmpty("api_key")
            /\ posts = <<>>
        /\ ~Resolves("api_key") =>
            /\ client_id = FirstNonEmpty("client_id")
            /\ client_secret = FirstNonEmpty("client_secret")
            /\ mode # <<"API-KEY">>
            /\ (Resolves("client_id") /\ Resolves("client_secret"))
                <=> pc # "exit_no_credentials"
            /\ pc \in {"for", "while", "after", "done"} =>
                /\ mode = <<"OAUTH2">>
                /\ DOMAIN headers = {"Authorization", "Accept"}
                /\ headers["Authorization"] = <<"Bearer ">> \o token

C8_Witness ==
    /\ pc = "done"
    /\ mode = <<"API-KEY">>
    /\ ~NonEmpty(args["api_key"]) /\ ~NonEmpty(environ["api_key"])
    /\ api_key = <<"file">>
    /\ Resolves("client_id") /\ Resolves("client_secret")

NoUsableCredentials ==
    ~Resolves("api_key") /\ (~Resolves("client_id") \/ ~Resolves("client_secret"))

\* C9 (as stated): whatever the input file holds, a run without usable
\* credentials ends with a non-zero exit status and without any network
\* request.
C9_FailFast ==
    (Terminated /\ NoUsableCredentials) =>
        exit_status # 0 /\ posts = <<>> /\ queried = <<>>

\* C9 (amended): a run without usable credentials issues no network request;
\* it ends with a non-zero status when the input holds at least one valid
\* identifier, and with status 0, before the credentials are looked at, when
\* it holds none.
C9_FailFastOnValidInput ==
    NoUsableCredentials =>
        /\ posts = <<>> /\ queried = <<>>
        /\ pc \in {"load", "resolve", "exit_no_siret", "exit_no_credentials"}
        /\ pc = "exit_no_credentials" => (ValidIds # {} /\ exit_status # 0)
        /\ pc = "exit_no_siret" => (ValidIds = {} /\ exit_status = 0)

C9_Witness ==
    /\ pc = "exit_no_credentials"
    /\ exit_status = 1
    /\ Resolves("client_id") /\ ~Resolves("client_secret")
    /\ posts = <<>>

TokenRejected ==
    pc = "exit_uncaught" /\ uncaught \in {HTTPErrorText(401), HTTPErrorText(500)}

\* C10: the exit status of a run whose token request was rejected differs
\* from the status of missing credentials and from the success status, and
\* normal completion has the success status whatever the rows hold.
C10_DistinctExitStatuses ==
    /\ pc = "exit_no_credentials" => exit_status = EXIT_NO_CREDENTIALS
    /\ pc = "done" => exit_status = EXIT_SUCCESS
    /\ EXIT_NO_CREDENTIALS # EXIT_SUCCESS
    /\ TokenRejected => exit_status \notin {EXIT_NO_CREDENTIALS, EXIT_SUCCESS}


\* the positions of a column of digit-stripped values that start a lookup:
\* the value is 14 characters long and no earlier position holds the same
FirstOccurrences(norm) ==
    {k \in 1..Len(norm) :
        /\ Len(norm[k]) = 14
        /\ \A j \in 1..(k - 1) : norm[j] # norm[k]}

\* C11: the identifiers a GET is issued for are, in order, the input column
\* with the non-digits stripped, duplicates removed after stripping (first
\* occurrence kept) and only the values of length 14 kept: two input values
\* with the same digits give one lookup, a value of another length gives none.
C11_LookupSequence ==
    LET norm == [k \in 1..Len(input) |-> Normalized(input[k])]
        first == FirstOccurrences(norm)
    IN  /\ Len(queried) <= Cardinality(first)
        /\ \A n \in 1..Len(queried) :
            \E k \in first :
                /\ queried[n] = norm[k]
                /\ Cardinality({j \in first : j < k}) = n - 1
        /\ pc = "done" => Len(queried) = Cardinality(first)
        /\ pc = "exit_no_siret" => first = {}

C11_Witness ==
    /\ pc = "done"
    /\ Len(input) = 2
    /\ input[1] # input[2]
    /\ Normalized(input[1]) = Normalized(input[2])
    /\ queried = <<SiretA>>


\* C15: when the processing of the i-th identifier ends, the success counter
\* plus the failure counter equals i and equals the number of accumulated
\* rows; the final summary therefore has OK + KO = Total.
C15_CountersAddUp ==
    /\ pc \in {"for", "done"} =>
        /\ ok + ko = i
        /\ Len(rows) = i
    /\ pc = "done" => ok + ko = total


\* the number of identifiers whose processing has ended
Processed == IF pc \in {"while", "after"} THEN i - 1 ELSE i

\* the values of i after which a checkpoint is due
DueSteps(n) ==
    {k \in 1..n : k % args.checkpoint_rows = 0 \/ k = Cardinality(ValidIds)}

\* the lines of a file hold the rows rs: every value as text, an absent or
\* null value as an empty cell
SameRows(lines, rs) ==
    /\ Len(lines) = Len(rs)
    /\ \A k \in 1..Len(rs) :
        /\ DOMAIN rs[k] \subseteq DOMAIN lines[k]
        /\ \A f \in DOMAIN lines[k] :
            lines[k][f] = IF f \in DOMAIN rs[k] /\ rs[k][f] # <<"None">>
                          THEN rs[k][f] ELSE <<>>

\* C13: with a checkpoint interval M > 0 and T valid identifiers the
\* checkpoint file is overwritten exactly after the i-th processed identifier
\* for every i with i mod M = 0 or i = T, each time with all the rows
\* accumulated so far; at the end it holds the same rows as the final output.
C13_CheckpointSchedule ==
    args.checkpoint_rows > 0 =>
        /\ Len(checkpoint_log) = Cardinality(DueSteps(Processed))
        /\ \A k \in 1..Len(checkpoint_log) :
            /\ checkpoint_log[k] \in DueSteps(Processed)
            /\ k > 1 => checkpoint_log[k - 1] < checkpoint_log[k]
        /\ (pc = "for" /\ i \in DueSteps(i)) => SameRows(checkpoint.rows, rows)
        /\ pc = "done" => SameRows(checkpoint.rows, output.rows)

C13_Witness ==
    /\ pc = "done"
    /\ args.checkpoint_rows = 2
    /\ total = 3
    /\ checkpoint_log = <<2, 3>>
    /\ Len(checkpoint.rows) = 3
    /\ \E k \in 1..3 : IsFailureRecord(rows[k])
    /\ \E k \in 1..3 : IsEnrichedRecord(rows[k])


\* the establishment objects the document shows: the one nested under
\* "etablissement", or the document itself when it has no such key
ShownEtablissements ==
    IF "etablissement" \in DOMAIN js THEN {js["etablissement"]} ELSE {js}

HasSiretAndDenomination(e) ==
    /\ "siret" \in DOMAIN e
    /\ "uniteLegale" \in DOMAIN e
    /\ "denominationUniteLegale" \in DOMAIN e["uniteLegale"]

FirstNine(x) == [k \in 1..(IF Len(x) < 9 THEN Len(x) ELSE 9) |-> x[k]]

\* the record extracted from an establishment with siret X and denomination
\* D carries X as siret, D as denomination and, when the legal unit has no
\* explicit siren, the first 9 characters of X as siren
ExtractedAsShown(e) ==
    /\ last_err = <<"None">>
    /\ Len(rows) = 1
    /\ rows[1].siret = e["siret"]
    /\ rows[1].denomination = e["uniteLegale"]["denominationUniteLegale"]
    /\ "siren" \notin DOMAIN e["uniteLegale"] => rows[1].siren = FirstNine(e["siret"])

\* C12 (as stated): for a payload whose establishment object, nested under
\* "etablissement" or the top-level object itself, has siret X and
\* uniteLegale.denominationUniteLegale D (any text D), extract_fields returns
\* siret = X, denomination = D and, with no explicit siren, siren = X[:9].
C12_SiretAndDenomination ==
    pc = "extracted" =>
        \A e \in ShownEtablissements :
            (HasSiretAndDenomination(e)
                /\ e["uniteLegale"]["denominationUniteLegale"] # <<"None">>)
            => ExtractedAsShown(e)

\* C12 (amended): the same for a non-empty text D; an empty or null
\* denomination is replaced by nomUniteLegale (null when that is absent too).
C12_NonEmptyDenomination ==
    pc = "extracted" =>
        \A e \in ShownEtablissements :
            (HasSiretAndDenomination(e)
                /\ e["uniteLegale"]["denominationUniteLegale"] # <<"None">>
                /\ e["uniteLegale"]["denominationUniteLegale"] # <<>>)
            => ExtractedAsShown(e)

C12_Witness ==
    /\ pc = "extracted"
    /\ "etablissement" \in DOMAIN js
    /\ HasSiretAndDenomination(js["etablissement"])
    /\ js["etablissement"]["siret"] = SiretA
    /\ js["etablissement"]["uniteLegale"]["denominationUniteLegale"] = ACME
    /\ Len(rows) = 1
    /\ rows[1].siren = <<"1", "2", "3", "4", "5", "6", "7", "8", "9">>
    /\ rows[1].denomination = ACME


\* the document is one establishment, nested or at the top level, and none of
\* its keys holds null where an object is expected: keys are absent or filled
AbsentOrFilled(e) ==
    /\ "etablissement" \in DOMAIN js => DOMAIN js = {"etablissement"}
    /\ "json_null" \notin DOMAIN e
    /\ \A k \in {"uniteLegale", "adresseEtablissement"} :
        k \in DOMAIN e => "json_null" \notin DOMAIN e[k]

Part(e, k) == IF k \in DOMAIN e THEN e[k] ELSE <<>>

FirstPeriode(e) ==
    IF "periodesEtablissement" \in DOMAIN e /\ Len(e["periodesEtablissement"]) > 0
    THEN e["periodesEtablissement"][1] ELSE <<>>

Lacks(obj, keys) == keys \cap DOMAIN obj = {}

\* for every field of the record: the keys it is read from are all absent
SourcesAbsent(e) ==
    LET u == Part(e, "uniteLegale")
        a == Part(e, "adresseEtablissement")
        p == FirstPeriode(e)
    IN  [siret |-> Lacks(e, {"siret"}),
         siren |-> Lacks(e, {"siret"}),
         denomination |-> Lacks(u, {"denominationUniteLegale", "nomUniteLegale"}),
         etat_etablissement |->
            /\ Lacks(p, {"etatAdministratifEtablissement"})
            /\ Lacks(e, {"etatAdministratifEtablissement"}),
         date_creation |-> Lacks(u, {"dateCreationUniteLegale"}),
         tranche_effectifs |->
            /\ Lacks(u, {"trancheEffectifsUniteLegale"})
            /\ Lacks(e, {"trancheEffectifsEtablissement"}),
         naf |->
            /\ Lacks(p, {"activitePrincipaleEtablissement"})
            /\ Lacks(e, {"activitePrincipaleEtablissement"}),
         libelle_naf |-> Lacks(p, {"nomenclatureActivitePrincipaleEtablissement"}),
         adresse_ligne_1 |->
            Lacks(a, {"numeroVoieEtablissement", "typeVoieEtablissement",
                      "libelleVoieEtablissement",
                      "complementAdresseEtablissement"}),
         code_postal |-> Lacks(a, {"codePostalEtablissement"}),
         commune |-> Lacks(a, {"libelleCommuneEtablissement"})]

\* extraction has returned a record with every field, and each field whose
\* source keys are absent has the value missing(field)
ExtractedWithMissing(e, missing(_)) ==
    /\ last_err = <<"None">>
    /\ Len(rows) = 1
    /\ DOMAIN rows[1] = DOMAIN SourcesAbsent(e)
    /\ \A f \in DOMAIN rows[1] : SourcesAbsent(e)[f] => rows[1][f] = missing(f)

AlwaysNull(f) == <<"None">>

NullOrEmptyText(f) == IF f \in {"siren", "libelle_naf"} THEN <<>> ELSE <<"None">>

\* C14 (as stated): extract_fields never fails on a payload in which any
\* subset of the expected keys is absent at any nesting level, and every
\* field of the returned record whose source keys are absent is null.
C14_AbsentIsNull ==
    pc = "extracted" =>
        \A e \in ShownEtablissements :
            AbsentOrFilled(e) => ExtractedWithMissing(e, AlwaysNull)

\* C14 (amended): it never fails on such a payload, and a field whose source
\* keys are absent is null, except siren and libelle_naf, which are the
\* empty text.
C14_AbsentIsNullOrEmptyText ==
    pc = "extracted" =>
        \A e \in ShownEtablissements :
            AbsentOrFilled(e) => ExtractedWithMissing(e, NullOrEmptyText)

C14_Witness ==
    /\ pc = "extracted"
    /\ DOMAIN js = {"siret", "periodesEtablissement"}
    /\ js["periodesEtablissement"] = <<>>
    /\ Len(rows) = 1
    /\ rows[1].siret = SiretA
    /\ rows[1].denomination = <<"None">>
    /\ rows[1].commune = <<"None">>
    /\ rows[1].libelle_naf = <<>>


IsGet(k) == wire[k].op = "GET"
IsAcquisition(k) == wire[k].op = "POST" /\ wire[k].value # <<>>

\* the latest acquisition before position k of the network log, 0 if none
LatestAcquisition(k) ==
    LET earlier == {j \in 1..(k - 1) : IsAcquisition(j)}
    IN  IF earlier = {} THEN 0
        ELSE CHOOSE j \in earlier : \A m \in earlier : m <= j

EventsOf(op, n) == {k \in 1..Len(wire) : wire[k].op = op /\ wire[k].i = n}

\* C16: in enrich_sirets_insee_1.py, once a 401 on a lookup has triggered a
\* token re-acquisition, every later GET (the retry of that identifier and the
\* lookups of the following ones) carries the most recently acquired token,
\* the replaced token is never sent again, and every identifier sees at most
\* one re-acquisition and at most two GETs.
C16_LatestTokenSent ==
    /\ \A k \in 1..Len(wire) :
        IsGet(k) =>
            /\ LatestAcquisition(k) # 0
            /\ wire[k].value = <<"Bearer ">> \o wire[LatestAcquisition(k)].value
            /\ \A j \in 1..(LatestAcquisition(k) - 1) :
                IsAcquisition(j) => wire[k].value # <<"Bearer ">> \o wire[j].value
    /\ \A n \in 1..Len(sirets) :
        /\ Cardinality(EventsOf("POST", n)) <= 1
        /\ Cardinality(EventsOf("GET", n)) <= 2

C16_Witness ==
    /\ pc = "done"
    /\ Len(wire) = 5
    /\ wire[1] = [op |-> "POST", i |-> 0, value |-> <<"T1">>]
    /\ wire[2] = [op |-> "GET", i |-> 1, value |-> <<"Bearer ", "T1">>]
    /\ wire[3] = [op |-> "POST", i |-> 1, value |-> <<"T2">>]
    /\ wire[4] = [op |-> "GET", i |-> 1, value |-> <<"Bearer ", "T2">>]
    /\ wire[5] = [op |-> "GET", i |-> 2, value |-> <<"Bearer ", "T2">>]
    /\ Len(rows) = 2

====
